---- MODULE Spec2Model ----
(***************************************************************************)
(* river.optim: the Optimizer lifecycle (optim/base.py) and the weight     *)
(* initializers (optim/initializers.py).                                   *)
(*                                                                         *)
(* Numbers (rates, weights, gradients, draws) are integers.  A Python      *)
(* call that raises is a result whose exc field names the exception.       *)
(***************************************************************************)
EXTENDS Integers, Sequences, FiniteSets, TLC

VARIABLES
    lr_arg,        \* the lr argument Optimizer.__init__ was called with
    variant,       \* the class whose _update_after_pred the optimizer runs
    lr,            \* self.lr
    n_iterations,  \* self.n_iterations
    heap,          \* the caller's weight dicts, by object identity
    ret,           \* the last Optimizer operation: arguments and outcome
    last_upd,      \* the last update_after_pred call
    prev_upd,      \* the update_after_pred call before that
    read_log,      \* learning_rate reads since the last update_after_pred call
    attempted,     \* update_after_pred calls made
    completed,     \* update_after_pred calls that returned
    made,          \* per initializer instance: its constructor arguments
    inits,         \* the initializer objects, by instance name
    log            \* per initializer instance: its calls, each [shape, out]

optVars  == <<lr_arg, variant, lr, n_iterations, heap, ret, last_upd, prev_upd,
              read_log, attempted, completed>>
initVars == <<made, inits, log>>
vars     == <<lr_arg, variant, lr, n_iterations, heap, ret, last_upd, prev_upd,
              read_log, attempted, completed, made, inits, log>>

(***************************************************************************)
(* Bounds.                                                                 *)
(***************************************************************************)
MaxCalls     == 3   \* update_after_pred calls made on one optimizer
MaxInitCalls == 4   \* calls made on the initializers of one run

(***************************************************************************)
(* Schedulers (optim/schedulers.py): get(iteration) -> rate.               *)
(***************************************************************************)
\* schedulers.Constant(learning_rate)
SchedulersConstant(r) ==
    [cls |-> "Constant", learning_rate |-> r, table |-> <<>>, raw |-> "none"]

\* any other scheduler: a pure function of the iteration number, as a table
SchedulersTable(t) ==
    [cls |-> "Scheduler", learning_rate |-> 0, table |-> t, raw |-> "none"]

\* an object that is neither a number nor a scheduler, bound as it is
NotAScheduler(what) ==
    [cls |-> "object", learning_rate |-> 0, table |-> <<>>, raw |-> what]

\* s.get(t): the rate, or the AttributeError of an object without get
SchedulerGet(s, t) ==
    CASE s.cls = "Constant"  -> [exc |-> "", val |-> s.learning_rate]
      [] s.cls = "Scheduler" -> [exc |-> "", val |-> s.table[t + 1]]
      [] OTHER               -> [exc |-> "AttributeError", val |-> 0]

(***************************************************************************)
(* Constructor inputs.                                                     *)
(***************************************************************************)
Numbers    == {-1, 0, 1, 2}
Rates      == {1, 2}
Tables     == [1..(MaxCalls + 1) -> Rates]
NonNumbers == {"str", "None"}

NumberArg(r)    == [type |-> "number", num |-> r, table |-> <<>>, raw |-> "none"]
SchedulerArg(t) == [type |-> "scheduler", num |-> 0, table |-> t, raw |-> "none"]
ObjectArg(what) == [type |-> "object", num |-> 0, table |-> <<>>, raw |-> what]

\* isinstance(lr, numbers.Number)
IsNumber(arg) == arg.type = "number"

\* the object the caller passed, as a Python value
ArgObject(arg) ==
    IF arg.type = "scheduler" THEN SchedulersTable(arg.table)
                              ELSE NotAScheduler(arg.raw)

(***************************************************************************)
(* The optimizer object is self = [lr, n_iterations]; a method maps self   *)
(* (and the heap of weight dicts) to its outcome and the state it leaves.  *)
(***************************************************************************)

\* Mutant: the number is bound as it is, without schedulers.Constant
Optimizer__init__NoNormalize(arg) ==
    [exc  |-> "",
     self |-> [lr |-> ArgObject(arg), n_iterations |-> 0]]

\* Optimizer.__init__(lr)
Optimizer__init__(arg) ==
    [exc  |-> "",
     self |-> [lr           |-> IF IsNumber(arg) THEN SchedulersConstant(arg.num)
                                                 ELSE ArgObject(arg),
               n_iterations |-> 0]]

\* Mutant: the read advances the counter
learning_rate_Advancing(self) ==
    LET r == SchedulerGet(self.lr, self.n_iterations)
    IN  [exc |-> r.exc, val |-> r.val,
         self |-> [self EXCEPT !.n_iterations = @ + 1], t |-> self.n_iterations]

\* Optimizer.learning_rate (property)
learning_rate(self) ==
    LET r == SchedulerGet(self.lr, self.n_iterations)
    IN  [exc |-> r.exc, val |-> r.val, self |-> self, t |-> self.n_iterations]

\* Mutant: a copy of the dict is returned
Optimizer_update_before_pred_Copy(self, h, w) ==
    [exc |-> "", out |-> "copy", self |-> self, heap |-> h]

\* Optimizer.update_before_pred(w): w is the identity of the caller's dict
Optimizer_update_before_pred(self, h, w) ==
    [exc |-> "", out |-> w, self |-> self, heap |-> h]

(***************************************************************************)
(* _update_after_pred, the extension point.  A gradient is the sequence of *)
(* its items, <<key, value>>, in the dict's iteration order.               *)
(***************************************************************************)

\* Optimizer._update_after_pred: the base body
Optimizer__update_after_pred(self, d, g) ==
    [exc |-> "NotImplementedError", w |-> d, queries |-> {}, rates |-> {}]

\* the concrete rule: for i, gi in g.items(): w[i] -= self.learning_rate * gi
RECURSIVE SGDItems(_, _, _, _, _)
SGDItems(self, d, g, queries, rates) ==
    IF g = <<>>
    THEN [exc |-> "", w |-> d, queries |-> queries, rates |-> rates]
    ELSE LET i  == g[1][1]
             gi == g[1][2]
         IN  IF i \notin DOMAIN d
             THEN [exc |-> "KeyError", w |-> d, queries |-> queries, rates |-> rates]
             ELSE LET r == learning_rate(self)
                  IN  IF r.exc # ""
                      THEN [exc |-> r.exc, w |-> d,
                            queries |-> queries \cup {r.t}, rates |-> rates]
                      ELSE SGDItems(self, [d EXCEPT ![i] = @ - r.val * gi], Tail(g),
                                    queries \cup {r.t}, rates \cup {r.val})

SGD__update_after_pred(self, d, g) == SGDItems(self, d, g, {}, {})

\* self._update_after_pred(w, g), by the class of self
_update_after_pred(cls, self, d, g) ==
    IF cls = "SGD" THEN SGD__update_after_pred(self, d, g)
                   ELSE Optimizer__update_after_pred(self, d, g)

(***************************************************************************)
(* Optimizer.update_after_pred(w, g)                                       *)
(***************************************************************************)
\* Mutant: an empty gradient returns early, before the counter
Optimizer_update_after_pred_SkipEmpty(cls, self, h, w, g) ==
    LET u == _update_after_pred(cls, self, h[w], g)
        h1 == [h EXCEPT ![w] = u.w]
    IN  IF u.exc # ""
        THEN [exc |-> u.exc, out |-> "none", self |-> self, heap |-> h1,
              queries |-> u.queries, rates |-> u.rates]
        ELSE [exc |-> "", out |-> w,
              self |-> IF g = <<>> THEN self
                                   ELSE [self EXCEPT !.n_iterations = @ + 1],
              heap |-> h1, queries |-> u.queries, rates |-> u.rates]

\* Mutant: the counter is incremented before the delegated update
Optimizer_update_after_pred_IncrementFirst(cls, self, h, w, g) ==
    LET self1 == [self EXCEPT !.n_iterations = @ + 1]
        u  == _update_after_pred(cls, self1, h[w], g)
        h1 == [h EXCEPT ![w] = u.w]
    IN  IF u.exc # ""
        THEN [exc |-> u.exc, out |-> "none", self |-> self1, heap |-> h1,
              queries |-> u.queries, rates |-> u.rates]
        ELSE [exc |-> "", out |-> w, self |-> self1, heap |-> h1,
              queries |-> u.queries, rates |-> u.rates]

\* Mutant: the counter is incremented in a finally clause
Optimizer_update_after_pred_Finally(cls, self, h, w, g) ==
    LET u  == _update_after_pred(cls, self, h[w], g)
        h1 == [h EXCEPT ![w] = u.w]
    IN  [exc |-> u.exc, out |-> IF u.exc # "" THEN "none" ELSE w,
         self |-> [self EXCEPT !.n_iterations = @ + 1], heap |-> h1,
         queries |-> u.queries, rates |-> u.rates]

Optimizer_update_after_pred(cls, self, h, w, g) ==
    LET u == _update_after_pred(cls, self, h[w], g)
        \* the dict is modified in place, also by an update that raises midway
        h1 == [h EXCEPT ![w] = u.w]
    IN  IF u.exc # ""
        THEN [exc |-> u.exc, out |-> "none", self |-> self, heap |-> h1,
              queries |-> u.queries, rates |-> u.rates]
        ELSE [exc |-> "", out |-> w,
              self |-> [self EXCEPT !.n_iterations = @ + 1], heap |-> h1,
              queries |-> u.queries, rates |-> u.rates]

(***************************************************************************)
(* The caller's side: one optimizer, two weight dicts, a few gradients.    *)
(***************************************************************************)
Variants == {"Optimizer", "SGD"}
WIds     == {"w1", "w2"}
Heap0    == [w1 |-> [a |-> 0], w2 |-> [a |-> 0, b |-> 0]]
Grads    == { <<>>, << <<"a", 1>> >>, << <<"b", 1>> >>, << <<"a", 1>>, <<"b", -1>> >> }

Self == [lr |-> lr, n_iterations |-> n_iterations]

NoCall == [valid |-> FALSE, exc |-> "", n_call |-> 0, k |-> 0, a |-> 0,
           queries |-> {}, rates |-> {}]

Op(name, exc, arg, out, val, raised, self0, heap0) ==
    [op |-> name, exc |-> exc, arg |-> arg, out |-> out, val |-> val,
     raised |-> raised, self_call |-> self0, snap |-> heap0]

\* opt = cls(lr = arg)
Constructed(arg, cls) ==
    LET o == Optimizer__init__(arg)
    IN  /\ lr_arg = arg
        /\ variant = cls
        /\ lr = o.self.lr
        /\ n_iterations = o.self.n_iterations
        /\ heap = Heap0
        /\ ret = Op("__init__", o.exc, "none", "none", 0, "", o.self, Heap0)
        /\ last_upd = NoCall
        /\ prev_upd = NoCall
        /\ read_log = <<>>
        /\ attempted = 0
        /\ completed = 0

OptInit ==
    \E cls \in Variants :
        \/ \E x \in NonNumbers : Constructed(ObjectArg(x), cls)
        \/ \E t \in Tables : Constructed(SchedulerArg(t), cls)
        \/ \E r \in Numbers : Constructed(NumberArg(r), cls)

\* a read of opt.learning_rate
LearningRateRead ==
    LET r == learning_rate(Self)
    IN  /\ lr' = r.self.lr
        /\ n_iterations' = r.self.n_iterations
        /\ ret' = Op("learning_rate", r.exc, "none", "none", r.val, "", Self, heap)
        /\ read_log' = (IF Len(read_log) < 2 THEN read_log ELSE Tail(read_log))
                           \o << [exc |-> r.exc, val |-> r.val] >>
        /\ UNCHANGED <<lr_arg, variant, heap, last_upd, prev_upd, attempted,
                       completed, made, inits, log>>

\* opt.update_before_pred(w)
update_before_pred(w) ==
    LET r == Optimizer_update_before_pred(Self, heap, w)
    IN  /\ lr' = r.self.lr
        /\ n_iterations' = r.self.n_iterations
        /\ heap' = r.heap
        /\ ret' = Op("update_before_pred", r.exc, w, r.out, 0, "", Self, heap)
        /\ UNCHANGED <<lr_arg, variant, last_upd, prev_upd, read_log, attempted,
                       completed, made, inits, log>>

\* opt.update_after_pred(w, g)
update_after_pred(w, g) ==
    /\ attempted < MaxCalls
    /\ LET r == Optimizer_update_after_pred(variant, Self, heap, w, g)
           raised == _update_after_pred(variant, Self, heap[w], g).exc
       IN  /\ lr' = r.self.lr
           /\ n_iterations' = r.self.n_iterations
           /\ heap' = r.heap
           /\ ret' = Op("update_after_pred", r.exc, w, r.out, 0, raised, Self, heap)
           /\ last_upd' = [valid |-> TRUE, exc |-> r.exc, n_call |-> n_iterations,
                           k |-> completed, a |-> attempted,
                           queries |-> r.queries, rates |-> r.rates]
           /\ prev_upd' = last_upd
           /\ read_log' = <<>>
           /\ attempted' = attempted + 1
           /\ completed' = IF r.exc = "" THEN completed + 1 ELSE completed
    /\ UNCHANGED <<lr_arg, variant, made, inits, log>>

(***************************************************************************)
(* Initializers.  A shape is an int k (int = TRUE, dims = <<k>>) or a      *)
(* tuple of ints.  A result is a scalar, an array (its shape and its       *)
(* elements in row-major order) or a raised exception.                     *)
(***************************************************************************)
IntShape(k)      == [int |-> TRUE,  dims |-> <<k>>]
TupleShape(dims) == [int |-> FALSE, dims |-> dims]

Scalar(v)       == [exc |-> "", kind |-> "scalar", shape |-> <<>>, data |-> <<v>>]
Array(dims, xs) == [exc |-> "", kind |-> "array", shape |-> dims, data |-> xs]
Raised(e)       == [exc |-> e, kind |-> "none", shape |-> <<>>, data |-> <<>>]

\* shape == 1 in Python: the int 1; the tuple (1,) is not equal to 1
ShapeIs1(shape) == shape.int /\ shape.dims = <<1>>

RECURSIVE Product(_)
Product(dims) == IF dims = <<>> THEN 1 ELSE dims[1] * Product(Tail(dims))

NegativeDim(shape) == \E j \in DOMAIN shape.dims : shape.dims[j] < 0

\* numpy.full(shape, fill_value)
NpFull(shape, v) ==
    IF NegativeDim(shape)
    THEN Raised("ValueError")
    ELSE Array(shape.dims, [j \in 1..Product(shape.dims) |-> v])

\* the j-th standard normal deviate of the stream seeded with key
Gauss(key, j) == (((key + 3) * j * j + 5 * j + key) % 11) - 5

\* numpy.random.RandomState(seed): seeded from the OS entropy when seed is None
RandomState(seeded, seed, entropy) ==
    [key |-> IF seeded THEN seed ELSE entropy, pos |-> 0]

\* RandomState.normal(loc, scale, size): the array is allocated, then filled
\* with the next deviates of the stream
RandomStateNormal(rng, loc, scale, size) ==
    IF NegativeDim(size)
    THEN [out |-> Raised("ValueError"), rng |-> rng]
    ELSE LET n == Product(size.dims)
         IN  [out |-> Array(size.dims,
                            [j \in 1..n |-> loc + scale * Gauss(rng.key, rng.pos + j)]),
              rng |-> [rng EXCEPT !.pos = @ + n]]

NoRng == [key |-> 0, pos |-> 0]

\* Constant.__init__(value)
Constant__init__(value) ==
    [cls |-> "Constant", value |-> value, mu |-> 0, sigma |-> 0,
     seeded |-> FALSE, seed |-> 0, rng |-> NoRng]

\* Zeros.__init__(): super().__init__(value=0.)
Zeros__init__ == [Constant__init__(0) EXCEPT !.cls = "Zeros"]

\* Mutant: the array is built for every shape
Constant__call__AlwaysFull(self, shape) ==
    [out |-> NpFull(shape, self.value), self |-> self]

\* Constant.__call__(shape)
Constant__call__(self, shape) ==
    [out  |-> IF ~ShapeIs1(shape) THEN NpFull(shape, self.value)
                                  ELSE Scalar(self.value),
     self |-> self]

\* Mutant: the seed is kept but not handed to RandomState
Normal__init__Unseeded(mu, sigma, seeded, seed, entropy) ==
    [cls |-> "Normal", value |-> 0, mu |-> mu, sigma |-> sigma,
     seeded |-> seeded, seed |-> seed, rng |-> RandomState(FALSE, seed, entropy)]

\* Normal.__init__(mu, sigma, seed)
Normal__init__(mu, sigma, seeded, seed, entropy) ==
    [cls |-> "Normal", value |-> 0, mu |-> mu, sigma |-> sigma,
     seeded |-> seeded, seed |-> seed, rng |-> RandomState(seeded, seed, entropy)]

\* Mutant: every call draws from a stream seeded afresh
Normal__call__Reseed(self, shape) ==
    LET weights == RandomStateNormal([self.rng EXCEPT !.pos = 0],
                                     self.mu, self.sigma, shape)
    IN  IF weights.out.exc # ""
        THEN [out |-> weights.out, self |-> self]
        ELSE IF ShapeIs1(shape)
             THEN [out |-> Scalar(weights.out.data[1]), self |-> self]
             ELSE [out |-> weights.out, self |-> self]

\* Normal.__call__(shape)
Normal__call__(self, shape) ==
    LET weights == RandomStateNormal(self.rng, self.mu, self.sigma, shape)
        self1   == [self EXCEPT !.rng = weights.rng]
    IN  IF weights.out.exc # ""
        THEN [out |-> weights.out, self |-> self1]
        ELSE IF ShapeIs1(shape)
             THEN [out |-> Scalar(weights.out.data[1]), self |-> self1]
             ELSE [out |-> weights.out, self |-> self1]

(***************************************************************************)
(* The caller's side: the initializers a model holds and the shapes it     *)
(* asks for.                                                               *)
(***************************************************************************)
ConstantValues == {1, 3}
ConstantShapes == {IntShape(k) : k \in {-1, 0, 1, 2, 3}}
                      \cup {TupleShape(<<1>>), TupleShape(<<2, 2>>)}
NormalParams   == { <<0, 1>>, <<1, 2>> }       \* <<mu, sigma>>
Seeds          == {7, 42}
Entropy        == {1, 42}
NormalShapes   == {IntShape(k) : k \in {-1, 0, 1, 2}}

ConstantArgs == {[cls |-> "Constant", value |-> v, mu |-> 0, sigma |-> 0,
                  seeded |-> FALSE, seed |-> 0] : v \in ConstantValues}
                  \cup {[cls |-> "Zeros", value |-> 0, mu |-> 0, sigma |-> 0,
                         seeded |-> FALSE, seed |-> 0]}
NormalArgs   == {[cls |-> "Normal", value |-> 0, mu |-> p[1], sigma |-> p[2],
                  seeded |-> TRUE, seed |-> sd] : p \in NormalParams, sd \in Seeds}
                  \cup {[cls |-> "Normal", value |-> 0, mu |-> p[1], sigma |-> p[2],
                         seeded |-> FALSE, seed |-> 0] : p \in NormalParams}

Construct(args, entropy) ==
    CASE args.cls = "Constant" -> Constant__init__(args.value)
      [] args.cls = "Zeros"    -> Zeros__init__
      [] OTHER -> Normal__init__(args.mu, args.sigma, args.seeded, args.seed, entropy)

Calls == LET RECURSIVE Sum(_)
             Sum(S) == IF S = {} THEN 0
                       ELSE LET i == CHOOSE x \in S : TRUE
                            IN  Len(log[i]) + Sum(S \ {i})
         IN  Sum(DOMAIN log)

\* init(shape) on a Constant or a Zeros
ConstantCall(i, shape) ==
    /\ inits[i].cls \in {"Constant", "Zeros"}
    /\ Calls < MaxInitCalls
    /\ LET r == Constant__call__(inits[i], shape)
       IN  /\ inits' = [inits EXCEPT ![i] = r.self]
           /\ log' = [log EXCEPT ![i] = Append(@, [shape |-> shape, out |-> r.out])]
    /\ UNCHANGED <<optVars, made>>

\* init(shape) on a Normal
NormalCall(i, shape) ==
    /\ inits[i].cls = "Normal"
    /\ Calls < MaxInitCalls
    /\ LET r == Normal__call__(inits[i], shape)
       IN  /\ inits' = [inits EXCEPT ![i] = r.self]
           /\ log' = [log EXCEPT ![i] = Append(@, [shape |-> shape, out |-> r.out])]
    /\ UNCHANGED <<optVars, made>>

(***************************************************************************)
(* Specifications.  Spec: one optimizer and its caller.  SpecInit: a model *)
(* holding one Constant (or Zeros), or two Normal initializers.            *)
(***************************************************************************)
NoInits == /\ made = <<>>
           /\ inits = <<>>
           /\ log = <<>>

Init == OptInit /\ NoInits

Next ==
    \/ LearningRateRead
    \/ \E w \in WIds : update_before_pred(w)
    \/ \E w \in WIds, g \in Grads : update_after_pred(w, g)

Spec == Init /\ [][Next]_vars

OneOptimizer == Constructed(NumberArg(1), "SGD")

ConstantInit ==
    \E a \in ConstantArgs :
        /\ made = [i \in {"A"} |-> a]
        /\ inits = [i \in {"A"} |-> Construct(a, 0)]
        /\ log = [i \in {"A"} |-> <<>>]

NormalInit ==
    \E a \in NormalArgs, b \in NormalArgs, ea \in Entropy, eb \in Entropy :
        /\ made = [i \in {"A", "B"} |-> IF i = "A" THEN a ELSE b]
        /\ inits = [i \in {"A", "B"} |-> IF i = "A" THEN Construct(a, ea)
                                                    ELSE Construct(b, eb)]
        /\ log = [i \in {"A", "B"} |-> <<>>]

InitInit == OneOptimizer /\ (ConstantInit \/ NormalInit)

NextInit ==
    \/ \E i \in DOMAIN inits, shape \in ConstantShapes : ConstantCall(i, shape)
    \/ \E i \in DOMAIN inits, shape \in NormalShapes : NormalCall(i, shape)

SpecInit == InitInit /\ [][NextInit]_vars

(***************************************************************************)
(* Properties of the optimizer (under Spec).                               *)
(***************************************************************************)

\* C1: n_iterations is the number of update_after_pred calls that have
\* returned since construction: 0 at first, one more per returned call (an
\* empty gradient included), and nothing else moves it.
C1_IterationsCountCompletedUpdates == n_iterations = completed

C1_Witness ==
    /\ n_iterations >= 2
    /\ last_upd.valid /\ last_upd.exc = "" /\ last_upd.queries = {}
    /\ ret.op = "update_before_pred"
    /\ Len(read_log) > 0

\* C2: the delegated update of a call made after k returned calls (the
\* (k+1)-th call when none has failed) runs with n_iterations = k: it queries
\* the scheduler with k only, and every rate it reads is schedule.get(k).
C2_UpdateUsesPreIncrementRate ==
    last_upd.valid =>
        /\ last_upd.n_call = last_upd.k
        /\ last_upd.queries \subseteq {last_upd.k}
        /\ \A r \in last_upd.rates :
               SchedulerGet(lr, last_upd.k) = [exc |-> "", val |-> r]

C2_Witness ==
    /\ last_upd.valid /\ last_upd.exc = ""
    /\ last_upd.k >= 1 /\ last_upd.a = last_upd.k
    /\ last_upd.queries = {last_upd.k}
    /\ lr.cls = "Scheduler"
    /\ lr.table[last_upd.k + 1] # lr.table[last_upd.k + 2]
    /\ last_upd.rates = {lr.table[last_upd.k + 1]}

\* C3: an optimizer constructed with a plain number r holds the constant
\* schedule of r, and every learning_rate read, before and after any number
\* of updates, returns r.
C3_NumberIsConstantSchedule ==
    IsNumber(lr_arg) =>
        /\ lr = SchedulersConstant(lr_arg.num)
        /\ ret.op = "learning_rate" => (ret.exc = "" /\ ret.val = lr_arg.num)
        /\ \A j \in DOMAIN read_log :
               read_log[j] = [exc |-> "", val |-> lr_arg.num]

C3_Witness ==
    /\ IsNumber(lr_arg) /\ lr_arg.num = 2
    /\ n_iterations >= 2
    /\ ret.op = "learning_rate" /\ ret.val = 2

BadLrArg(arg) == \/ arg.type = "number" /\ arg.num < 0
                 \/ arg.type = "object"

\* C4: a negative number, a non-number that is no scheduler, or None as lr
\* makes the construction raise: no optimizer comes out of it.
C4_BadLearningRateRejected ==
    (ret.op = "__init__" /\ BadLrArg(lr_arg)) => ret.exc # ""

\* C5: update_before_pred(w) returns the dict it was given, raises nothing,
\* and leaves every dict's contents, n_iterations and lr as they were.
C5_BeforePredIsIdentity ==
    ret.op = "update_before_pred" =>
        /\ ret.exc = ""
        /\ ret.out = ret.arg
        /\ heap = ret.snap
        /\ Self = ret.self_call

C5_Witness ==
    /\ ret.op = "update_before_pred"
    /\ n_iterations >= 1
    /\ heap[ret.arg] # Heap0[ret.arg]

\* C6: the learning_rate reads made since the last update_after_pred call all
\* returned schedule.get(n_iterations), for the n_iterations of now, and a read
\* leaves the optimizer as it found it.
C6_LearningRateReadIsPure ==
    /\ \A j \in DOMAIN read_log :
           LET now == SchedulerGet(lr, n_iterations)
           IN  read_log[j] = [exc |-> now.exc, val |-> now.val]
    /\ ret.op = "learning_rate" => Self = ret.self_call

C6_Witness ==
    /\ Len(read_log) = 2
    /\ ret.op = "learning_rate"
    /\ n_iterations >= 1
    /\ lr.cls = "Scheduler"
    /\ lr.table[n_iterations + 1] # lr.table[n_iterations]

\* C10: an update_after_pred call whose delegated update raises raises the
\* same exception and leaves n_iterations as it was, and the call after a
\* failed one runs with the iteration number of the failed one.
C10_FailedUpdateKeepsIteration ==
    /\ (ret.op = "update_after_pred" /\ ret.raised # "") =>
           /\ ret.exc = ret.raised
           /\ n_iterations = ret.self_call.n_iterations
    /\ (last_upd.valid /\ prev_upd.valid /\ prev_upd.exc # "") =>
           last_upd.n_call = prev_upd.n_call

C10_Witness ==
    /\ prev_upd.valid /\ prev_upd.exc = "KeyError" /\ prev_upd.n_call >= 1
    /\ last_upd.valid /\ last_upd.exc = "" /\ last_upd.queries # {}
    /\ ret.op = "update_after_pred"

(***************************************************************************)
(* Properties of the initializers (under SpecInit).                        *)
(***************************************************************************)
IsConstant(i) == inits[i].cls \in {"Constant", "Zeros"}
IsNormal(i)   == inits[i].cls = "Normal"

\* C7: a Constant called with the int 1 returns its value as a scalar; called
\* with any other shape numpy accepts it returns an array of that shape (of
\* length k for the int k) whose elements all equal the value; the calls leave
\* the initializer as constructed.
C7_ConstantCall ==
    \A i \in DOMAIN inits :
        IsConstant(i) =>
            /\ inits[i] = Construct(made[i], 0)
            /\ \A n \in DOMAIN log[i] :
                   LET e == log[i][n]
                       v == made[i].value
                   IN  /\ e.shape = IntShape(1) => e.out = Scalar(v)
                       /\ (e.shape # IntShape(1) /\ ~NegativeDim(e.shape)) =>
                              /\ e.out.exc = ""
                              /\ e.out.kind = "array"
                              /\ e.out.shape = e.shape.dims
                              /\ Len(e.out.data) = Product(e.shape.dims)
                              /\ \A j \in DOMAIN e.out.data : e.out.data[j] = v
                       /\ (e.shape.int /\ e.shape.dims[1] > 1) =>
                              Len(e.out.data) = e.shape.dims[1]

C7_Witness ==
    /\ "A" \in DOMAIN inits /\ IsConstant("A") /\ made["A"].value = 3
    /\ Len(log["A"]) = 4
    /\ log["A"][1].shape = IntShape(2)
    /\ log["A"][2].shape = IntShape(1)
    /\ log["A"][3].shape = TupleShape(<<1>>)
    /\ log["A"][4].shape = IntShape(1)

Min(a, b) == IF a < b THEN a ELSE b

\* C8: two Normal initializers constructed with the same mu, sigma and seed
\* return the same result at every step up to which they were asked for the
\* same shapes.
C8_SameSeedSameResults ==
    \A i \in DOMAIN inits, j \in DOMAIN inits :
        (IsNormal(i) /\ IsNormal(j) /\ made[i].seeded /\ made[i] = made[j]) =>
            \A n \in 1..Min(Len(log[i]), Len(log[j])) :
                (\A m \in 1..n : log[i][m].shape = log[j][m].shape) =>
                    log[i][n].out = log[j][n].out

C8_Witness ==
    /\ DOMAIN inits = {"A", "B"}
    /\ IsNormal("A") /\ made["A"].seeded /\ made["A"] = made["B"]
    /\ Len(log["A"]) = 2 /\ Len(log["B"]) = 2
    /\ log["A"][1].shape = IntShape(1) /\ log["B"][1].shape = IntShape(1)
    /\ log["A"][2].shape = IntShape(2) /\ log["B"][2].shape = IntShape(2)
    /\ log["A"][2].out.data[1] # log["A"][2].out.data[2]

RECURSIVE Drawn(_)
\* the deviates the calls of a log returned, in order
Drawn(calls) ==
    IF calls = <<>> THEN <<>> ELSE calls[1].out.data \o Drawn(Tail(calls))

\* C9: the results of a Normal's calls, one after the other, are the seeded
\* stream from its start with nothing skipped or repeated: the int 1 takes one
\* deviate and returns a scalar, an int k >= 0 other than 1 takes k and
\* returns an array of length k, and a call that raises takes none.
C9_CallsConsumeTheStreamInOrder ==
    \A i \in DOMAIN inits :
        IsNormal(i) =>
            LET drawn == Drawn(log[i])
                rng   == inits[i].rng
            IN  /\ made[i].seeded => rng.key = made[i].seed
                /\ rng.pos = Len(drawn)
                /\ \A j \in DOMAIN drawn :
                       drawn[j] = made[i].mu + made[i].sigma * Gauss(rng.key, j)
                /\ \A n \in DOMAIN log[i] :
                       LET e == log[i][n]
                           k == e.shape.dims[1]
                       IN  e.shape.int =>
                               /\ k = 1 => (e.out.kind = "scalar" /\ Len(e.out.data) = 1)
                               /\ (k >= 0 /\ k # 1) =>
                                      /\ e.out.kind = "array"
                                      /\ e.out.shape = <<k>>
                                      /\ Len(e.out.data) = k
                               /\ k < 0 => e.out.exc = "ValueError"

\* the same requests in another order: the request for one weight gets the
\* first deviate in A and the third in B
C9_Witness ==
    /\ DOMAIN inits = {"A", "B"}
    /\ IsNormal("A") /\ made["A"].seeded /\ made["A"] = made["B"]
    /\ Len(log["A"]) = 2 /\ Len(log["B"]) = 2
    /\ log["A"][1].shape = IntShape(1) /\ log["A"][2].shape = IntShape(2)
    /\ log["B"][1].shape = IntShape(2) /\ log["B"][2].shape = IntShape(1)
    /\ log["A"][1].out # log["B"][2].out
    /\ inits["A"].rng.pos = 3

====
